---- MODULE Spec2Model ----
(***************************************************************************)
(* JDWP session layer (src/jdwp/jdwp_main.cc): JdwpState::Create, the JDWP *)
(* thread's JdwpState::Run, ~JdwpState, the serial counters and the        *)
(* JdwpNetStateBase packet writers.                                        *)
(*                                                                         *)
(* Threads: the creating thread (Create, later ~JdwpState), the JDWP       *)
(* thread (Run), the callers of NextRequestSerial / NextEventSerial, the   *)
(* callers of writePacket / writeBufferedPacket and the caller of          *)
(* LastDebuggerActivity.                                                   *)
(*                                                                         *)
(* Mutex, ConditionVariable, the transport function table and Dbg are not  *)
(* part of jdwp_main.cc.  A mutex is modelled by its holder, a condition   *)
(* variable by the set of threads blocked in Wait (Broadcast empties it; a *)
(* waiter returns from Wait once it is no longer in the set and has taken  *)
(* the mutex back), the transport by the contract of its operations.       *)
(* Wait therefore returns only after a Broadcast: a spurious wakeup, the   *)
(* subject of the TODO at line 158 of Create, is not a behaviour of this   *)
(* model.  Of Dbg the model keeps the debugger-connected flag (raised by   *)
(* Connected, lowered by Disconnected) and the runtime state of the JDWP   *)
(* thread (ThreadWaiting, ThreadRunning); lastActivityWhen is written by   *)
(* the request handler, eventThreadId by the event code, both outside this *)
(* file.                                                                   *)
(***************************************************************************)
EXTENDS Integers, Sequences, FiniteSets, TLC

(* ------------------------------ bounds -------------------------------- *)
\* largest number of successful processIncoming calls a handshake may take
MaxK == 2
\* successful processIncoming calls modelled per connection
MaxProcess == 3
\* connections (successful accept/establish) modelled per session
MaxConnections == 2
\* concurrent callers of NextRequestSerial / NextEventSerial
NumCallers == 2
\* serial calls modelled in all
MaxSerialCalls == 3
\* concurrent callers of writePacket / writeBufferedPacket
NumWriters == 2
\* packet writes modelled in all
MaxWrites == 3
\* largest value MilliTime() takes
MaxNow == 3

(* ------------------------- program constants -------------------------- *)
\* JdwpState::JdwpState: requestSerial(0x10000000)
RequestSerialBase == 268435456
\* JdwpState::JdwpState: eventSerial(0x20000000)
EventSerialBase == 536870912
\* uint32_t is handled as two 16-bit halves: 2^16
Half == 65536

Free == "free"
Creator == "creator"
JdwpThread == "jdwp"
NULL == "NULL"

VARIABLES
  \* JdwpOptions
  options_server, options_suspend,
  \* JdwpState fields
  thread_start_lock_, thread_start_cond_, debug_thread_started_, debugThreadId,
  run, transport, netState, attach_lock_, attach_cond_, ddmActive,
  requestSerial, eventSerial, serial_lock_,
  \* JdwpNetStateBase
  socket_lock_,
  \* the transport behind the function table
  connected, shutdownCalled, handshakeK, procOk,
  \* Dbg
  disposed,
  \* positions of the threads and Run's local "first"
  cpc, rpc, first, createResult,
  \* serial callers: position, counter called, value read
  spc, skind, stmp,
  \* packet writers: position, operation
  wpc, wkind,
  \* history
  startBroadcasts, attachLog, attachReleases, connCount, estFailed,
  closedSinceAttach, joined, postVMDeaths, shutdowns, frees,
  reqReturned, evtReturned, writeLog,
  \* JdwpState fields written outside jdwp_main.cc, the millisecond clock,
  \* the call of LastDebuggerActivity in progress and the latest one completed
  eventThreadId, lastActivityWhen, now, apc, alast, activityResult,
  \* Dbg: the debugger-connected flag, the JDWP thread's runtime state
  gDebuggerConnected, threadState,
  \* history of Run
  endCause, exitCause, establishCalls, acceptCalls, dbgLog, resetLog,
  \* history of Create's startup call and of ~JdwpState
  startupFailed, dtorLog

optVars == <<options_server, options_suspend>>
lockVars == <<thread_start_lock_, thread_start_cond_, attach_lock_, attach_cond_>>
stateVars == <<debug_thread_started_, debugThreadId, run, transport, netState, ddmActive>>
transVars == <<connected, shutdownCalled, handshakeK, procOk, disposed>>
posVars == <<cpc, rpc, first, createResult>>
histVars == <<startBroadcasts, attachLog, attachReleases, connCount, estFailed,
              closedSinceAttach, joined, postVMDeaths, shutdowns, frees>>
extVars == <<eventThreadId, lastActivityWhen, now, apc, alast, activityResult>>
dbgVars == <<gDebuggerConnected, threadState>>
runHist == <<endCause, exitCause, establishCalls, acceptCalls, dbgLog, resetLog>>
dtorHist == <<startupFailed, dtorLog>>
\* the session's lifecycle without the fields written outside jdwp_main.cc
lifeCore == <<optVars, lockVars, stateVars, transVars, posVars, histVars,
              dbgVars, runHist, dtorHist>>
lifeVars == <<lifeCore, extVars>>
serialVars == <<requestSerial, eventSerial, serial_lock_, spc, skind, stmp,
                reqReturned, evtReturned>>
\* the serial callers' state other than the two counters
serialRest == <<serial_lock_, spc, skind, stmp, reqReturned, evtReturned>>
sinkVars == <<socket_lock_, wpc, wkind, writeLog>>
\* what the session's lifecycle leaves alone
others == <<serialVars, sinkVars, extVars>>
vars == <<lifeVars, serialVars, sinkVars>>

Callers == 1..NumCallers
Writers == 1..NumWriters

(* ----------------------- transport contract --------------------------- *)
\* (*transport->isConnected)(this)
IsConnected == connected

\* (*transport->awaitingHandshake)(this): false from the K-th successful
\* processIncoming of the connection on
awaitingHandshake == procOk < handshakeK

\* JdwpState::IsActive
IsActive == IsConnected

(* --------------------------- construction ----------------------------- *)
InitLife ==
  /\ options_server \in BOOLEAN
  /\ options_suspend \in BOOLEAN
  /\ thread_start_lock_ = Free
  /\ thread_start_cond_ = {}
  /\ debug_thread_started_ = FALSE
  /\ debugThreadId = 0
  /\ run = FALSE
  /\ transport = NULL
  /\ netState = NULL
  /\ attach_lock_ = Free
  /\ attach_cond_ = {}
  /\ ddmActive = FALSE
  /\ connected = FALSE
  /\ shutdownCalled = FALSE
  /\ handshakeK \in 1..MaxK
  /\ procOk = 0
  /\ disposed = FALSE
  /\ cpc = "c_startup"
  /\ rpc = "r_none"
  /\ first = FALSE
  /\ createResult = "pending"
  /\ startBroadcasts = 0
  /\ attachLog = <<>>
  /\ attachReleases = 0
  /\ connCount = 0
  /\ estFailed = FALSE
  /\ closedSinceAttach = FALSE
  /\ joined = FALSE
  /\ postVMDeaths = 0
  /\ shutdowns = 0
  /\ frees = 0
  /\ threadState = "running"
  /\ gDebuggerConnected = FALSE
  /\ endCause = "none"
  /\ exitCause = "none"
  /\ establishCalls = 0
  /\ acceptCalls = 0
  /\ dbgLog = <<>>
  /\ resetLog = <<>>
  /\ startupFailed = FALSE
  /\ dtorLog = <<>>

\* lines 98, 107: lastActivityWhen(0), eventThreadId(0); MilliTime at its origin
InitExt ==
  /\ eventThreadId = 0
  /\ lastActivityWhen = 0
  /\ now = 1
  /\ apc = "idle"
  /\ alast = 0
  /\ activityResult = <<>>

InitSerial ==
  /\ requestSerial = RequestSerialBase
  /\ eventSerial = EventSerialBase
  /\ serial_lock_ = {}
  /\ spc = [t \in Callers |-> "idle"]
  /\ skind = [t \in Callers |-> "request"]
  /\ stmp = [t \in Callers |-> 0]
  /\ reqReturned = <<>>
  /\ evtReturned = <<>>

InitSink ==
  /\ socket_lock_ = {}
  /\ wpc = [w \in Writers |-> "idle"]
  /\ wkind = [w \in Writers |-> "writePacket"]
  /\ writeLog = <<>>

Init == InitLife /\ InitExt /\ InitSerial /\ InitSink

(* ------------------------- JdwpState::Create -------------------------- *)
\* lines 121-139 with the result of startup ignored
CreateStartupIgnoreFailure ==
  /\ cpc = "c_startup"
  /\ transport' = "bound"
  /\ \E ok \in BOOLEAN :
       /\ netState' \in (IF ok THEN {"netstate"} ELSE {NULL, "netstate"})
       /\ startupFailed' = ~ok
  /\ cpc' = "c_lock_start"
  /\ UNCHANGED <<others, dbgVars, runHist, dtorLog, optVars, lockVars,
                 debug_thread_started_, debugThreadId, run, ddmActive,
                 transVars, rpc, first, createResult, histVars>>

\* lines 121-139: bind the transport, call startup; a failed startup returns
\* NULL, which destroys the UniquePtr's JdwpState
CreateStartup ==
  /\ cpc = "c_startup"
  /\ transport' = "bound"
  /\ \E ok \in BOOLEAN :
       IF ok
         THEN /\ netState' = "netstate"
              /\ cpc' = "c_lock_start"
              /\ UNCHANGED <<createResult, startupFailed>>
         ELSE /\ netState' \in {NULL, "netstate"}
              /\ cpc' = "d_begin"
              /\ createResult' = "null"
              /\ startupFailed' = TRUE
  /\ UNCHANGED <<others, dbgVars, runHist, dtorLog, optVars, lockVars,
                 debug_thread_started_, debugThreadId, run, ddmActive,
                 transVars, rpc, first, histVars>>

\* Create without line 145: the thread is spawned with thread_start_lock_ free
CreateLockStartOmitted ==
  /\ cpc = "c_lock_start"
  /\ cpc' = "c_lock_attach"
  /\ UNCHANGED <<others, dbgVars, runHist, dtorHist, optVars, lockVars, stateVars, transVars, rpc, first,
                 createResult, histVars>>

\* line 145: state->thread_start_lock_.Lock()
CreateLockStart ==
  /\ cpc = "c_lock_start"
  /\ thread_start_lock_ = Free
  /\ thread_start_lock_' = Creator
  /\ cpc' = "c_lock_attach"
  /\ UNCHANGED <<others, dbgVars, runHist, dtorHist, optVars, thread_start_cond_, attach_lock_, attach_cond_,
                 stateVars, transVars, rpc, first, createResult, histVars>>

\* Create without lines 146-148
CreateLockAttachOmitted ==
  /\ cpc = "c_lock_attach"
  /\ cpc' = "c_spawn"
  /\ UNCHANGED <<others, dbgVars, runHist, dtorHist, optVars, lockVars, stateVars,
                 transVars, rpc, first, createResult, histVars>>

\* lines 146-148: if (options->suspend) state->attach_lock_.Lock()
CreateLockAttach ==
  /\ cpc = "c_lock_attach"
  /\ IF options_suspend
       THEN attach_lock_ = Free /\ attach_lock_' = Creator
       ELSE UNCHANGED attach_lock_
  /\ cpc' = "c_spawn"
  /\ UNCHANGED <<others, dbgVars, runHist, dtorHist, optVars, thread_start_lock_, thread_start_cond_, attach_cond_,
                 stateVars, transVars, rpc, first, createResult, histVars>>

\* line 154: pthread_create(..., StartJdwpThread, state)
CreateSpawn ==
  /\ cpc = "c_spawn"
  /\ rpc = "r_none"
  /\ rpc' = "r_begin"
  /\ cpc' = "c_wait_start"
  /\ UNCHANGED <<others, dbgVars, runHist, dtorHist, optVars, lockVars, stateVars, transVars, first, createResult,
                 histVars>>

\* line 160, entering thread_start_cond_.Wait: the mutex is released and the
\* caller blocks, atomically
CreateWaitStart ==
  /\ cpc = "c_wait_start"
  /\ thread_start_lock_ = Creator
  /\ thread_start_lock_' = Free
  /\ thread_start_cond_' = thread_start_cond_ \cup {Creator}
  /\ cpc' = "c_start_waiting"
  /\ UNCHANGED <<others, dbgVars, runHist, dtorHist, optVars, attach_lock_, attach_cond_, stateVars, transVars,
                 rpc, first, createResult, histVars>>

\* line 160, leaving thread_start_cond_.Wait: woken by the broadcast, the
\* mutex taken back
CreateWakeStart ==
  /\ cpc = "c_start_waiting"
  /\ Creator \notin thread_start_cond_
  /\ thread_start_lock_ = Free
  /\ thread_start_lock_' = Creator
  /\ cpc' = "c_unlock_start"
  /\ UNCHANGED <<others, dbgVars, runHist, dtorHist, optVars, thread_start_cond_, attach_lock_, attach_cond_,
                 stateVars, transVars, rpc, first, createResult, histVars>>

\* lines 161, 171, 193: Unlock; without suspend Create returns the session
CreateUnlockStart ==
  /\ cpc = "c_unlock_start"
  /\ thread_start_lock_' = Free
  /\ IF options_suspend
       THEN cpc' = "c_wait_attach" /\ UNCHANGED createResult
       ELSE cpc' = "c_returned" /\ createResult' = "state"
  /\ UNCHANGED <<others, dbgVars, runHist, dtorHist, optVars, thread_start_cond_, attach_lock_, attach_cond_,
                 stateVars, transVars, rpc, first, histVars>>

\* line 175, entering attach_cond_.Wait
CreateWaitAttach ==
  /\ cpc = "c_wait_attach"
  /\ attach_lock_ = Creator
  /\ attach_lock_' = Free
  /\ attach_cond_' = attach_cond_ \cup {Creator}
  /\ cpc' = "c_attach_waiting"
  /\ UNCHANGED <<others, dbgVars, runHist, dtorHist, optVars, thread_start_lock_, thread_start_cond_, stateVars,
                 transVars, rpc, first, createResult, histVars>>

\* line 175, leaving attach_cond_.Wait
CreateWakeAttach ==
  /\ cpc = "c_attach_waiting"
  /\ Creator \notin attach_cond_
  /\ attach_lock_ = Free
  /\ attach_lock_' = Creator
  /\ attachReleases' = attachReleases + 1
  /\ cpc' = "c_unlock_attach"
  /\ UNCHANGED <<others, dbgVars, runHist, dtorHist, optVars, thread_start_lock_, thread_start_cond_, attach_cond_,
                 stateVars, transVars, rpc, first, createResult,
                 startBroadcasts, attachLog, connCount, estFailed,
                 closedSinceAttach, joined, postVMDeaths, shutdowns, frees>>

\* line 176: state->attach_lock_.Unlock()
CreateUnlockAttach ==
  /\ cpc = "c_unlock_attach"
  /\ attach_lock_' = Free
  /\ cpc' = "c_check_active"
  /\ UNCHANGED <<others, dbgVars, runHist, dtorHist, optVars, thread_start_lock_, thread_start_cond_, attach_cond_,
                 stateVars, transVars, rpc, first, createResult, histVars>>

\* lines 179-193: if (!state->IsActive()) return NULL (destroying the
\* JdwpState); otherwise return the session
CreateCheckActive ==
  /\ cpc = "c_check_active"
  /\ IF IsActive
       THEN cpc' = "c_returned" /\ createResult' = "state"
       ELSE cpc' = "d_begin" /\ createResult' = "null"
  /\ UNCHANGED <<others, dbgVars, runHist, dtorHist, optVars, lockVars, stateVars, transVars, rpc, first, histVars>>

(* ------------------------ JdwpState::ResetState ----------------------- *)
\* ResetState resetting the serial numbers to their bases
ResetStateResetsSerials ==
  /\ requestSerial' = RequestSerialBase
  /\ eventSerial' = EventSerialBase
  /\ UNCHANGED <<debugThreadId, eventThreadId>>

\* lines 203-217: UnregisterAll and the event-in-progress check, which only
\* logs a warning; the serial counters, debugThreadId and eventThreadId are
\* left as they are
ResetState ==
  UNCHANGED <<debugThreadId, eventThreadId, requestSerial, eventSerial>>

(* ------------------------ JdwpState::~JdwpState ----------------------- *)
\* the owner of a returned session discards it
TeardownStart ==
  /\ cpc = "c_returned"
  /\ cpc' = "d_begin"
  /\ UNCHANGED <<others, dbgVars, runHist, dtorHist, optVars, lockVars, stateVars, transVars, rpc, first,
                 createResult, histVars>>

\* a step of ~JdwpState and whether a JDWP thread exists that has not yet
\* returned from Run when the step is taken
DtorStep(step) == [step |-> step, threadLive |-> rpc \notin {"r_none", "r_exited"}]

\* lines 223-226 without the test of IsConnected()
DtorPostVMDeathUnconditional ==
  /\ cpc = "d_begin"
  /\ IF transport # NULL
       THEN /\ cpc' = "d_shutdown"
            /\ postVMDeaths' = postVMDeaths + 1
            /\ dtorLog' = Append(dtorLog, DtorStep("PostVMDeath"))
       ELSE /\ cpc' = "d_reset"
            /\ UNCHANGED <<postVMDeaths, dtorLog>>
  /\ UNCHANGED <<others, dbgVars, runHist, startupFailed, optVars, lockVars,
                 stateVars, transVars, rpc, first, createResult,
                 startBroadcasts, attachLog, attachReleases, connCount,
                 estFailed, closedSinceAttach, joined, shutdowns, frees>>

\* lines 223-226: if (transport != NULL) { if (IsConnected()) PostVMDeath();
DtorPostVMDeath ==
  /\ cpc = "d_begin"
  /\ IF transport # NULL
       THEN /\ cpc' = "d_shutdown"
            /\ postVMDeaths' = IF IsConnected THEN postVMDeaths + 1 ELSE postVMDeaths
            /\ dtorLog' = IF IsConnected
                            THEN Append(dtorLog, DtorStep("PostVMDeath"))
                            ELSE dtorLog
       ELSE /\ cpc' = "d_reset"
            /\ UNCHANGED <<postVMDeaths, dtorLog>>
  /\ UNCHANGED <<others, dbgVars, runHist, startupFailed, optVars, lockVars,
                 stateVars, transVars, rpc, first, createResult,
                 startBroadcasts, attachLog, attachReleases, connCount,
                 estFailed, closedSinceAttach, joined, shutdowns, frees>>

\* ~JdwpState without the call of line 232
DtorShutdownOmitted ==
  /\ cpc = "d_shutdown"
  /\ cpc' = "d_check_started"
  /\ UNCHANGED <<others, dbgVars, runHist, dtorHist, optVars, lockVars, stateVars, transVars, rpc, first,
                 createResult, histVars>>

\* line 232: (*transport->shutdown)(this); the contract leaves open whether
\* the peer connection is dropped at once
DtorShutdown ==
  /\ cpc = "d_shutdown"
  /\ shutdownCalled' = TRUE
  /\ connected' \in {connected, FALSE}
  /\ shutdowns' = shutdowns + 1
  /\ dtorLog' = Append(dtorLog, DtorStep("shutdown"))
  /\ cpc' = "d_check_started"
  /\ UNCHANGED <<others, dbgVars, runHist, startupFailed, optVars, lockVars,
                 stateVars, handshakeK, procOk, disposed, rpc, first,
                 createResult, startBroadcasts, attachLog, attachReleases,
                 connCount, estFailed, closedSinceAttach, joined, postVMDeaths,
                 frees>>

\* ~JdwpState clearing "run" without the join of line 237
DtorClearRunNoJoin ==
  /\ cpc = "d_check_started"
  /\ run' = IF debug_thread_started_ THEN FALSE ELSE run
  /\ cpc' = "d_free"
  /\ UNCHANGED <<others, dbgVars, runHist, dtorHist, optVars, lockVars, debug_thread_started_, debugThreadId,
                 transport, netState, ddmActive, transVars, rpc, first,
                 createResult, histVars>>

\* lines 234-235: if (debug_thread_started_) { run = false;
DtorClearRun ==
  /\ cpc = "d_check_started"
  /\ IF debug_thread_started_
       THEN /\ run' = FALSE
            /\ dtorLog' = Append(dtorLog, DtorStep("run = false"))
            /\ cpc' = "d_join"
       ELSE /\ UNCHANGED <<run, dtorLog>>
            /\ cpc' = "d_free"
  /\ UNCHANGED <<others, dbgVars, runHist, startupFailed, optVars, lockVars,
                 debug_thread_started_, debugThreadId, transport, netState,
                 ddmActive, transVars, rpc, first, createResult, histVars>>

\* line 237: pthread_join(pthread_, &threadReturn) returns once Run has returned
DtorJoin ==
  /\ cpc = "d_join"
  /\ rpc = "r_exited"
  /\ joined' = TRUE
  /\ dtorLog' = Append(dtorLog, DtorStep("join"))
  /\ cpc' = "d_free"
  /\ UNCHANGED <<others, dbgVars, runHist, startupFailed, optVars, lockVars,
                 stateVars, transVars, rpc, first, createResult,
                 startBroadcasts, attachLog, attachReleases, connCount,
                 estFailed, closedSinceAttach, postVMDeaths, shutdowns, frees>>

\* lines 243-244: (*transport->free)(this); netState = NULL;
DtorFree ==
  /\ cpc = "d_free"
  /\ frees' = frees + 1
  /\ netState' = NULL
  /\ dtorLog' = dtorLog \o <<DtorStep("free"), DtorStep("netState = NULL")>>
  /\ cpc' = "d_reset"
  /\ UNCHANGED <<others, dbgVars, runHist, startupFailed, optVars, lockVars,
                 debug_thread_started_, debugThreadId, run, transport,
                 ddmActive, transVars, rpc, first, createResult,
                 startBroadcasts, attachLog, attachReleases, connCount,
                 estFailed, closedSinceAttach, joined, postVMDeaths, shutdowns>>

\* lines 246-249: CHECK(netState == NULL); ResetState();
DtorReset ==
  /\ cpc = "d_reset"
  /\ cpc' = IF netState = NULL THEN "d_done" ELSE "d_aborted"
  /\ ResetState
  /\ dtorLog' = IF netState = NULL THEN Append(dtorLog, DtorStep("ResetState"))
                                   ELSE dtorLog
  /\ UNCHANGED <<serialRest, sinkVars, lastActivityWhen, now, apc, alast, activityResult,
                 dbgVars, runHist, startupFailed, optVars, lockVars,
                 debug_thread_started_, run, transport, netState, ddmActive,
                 transVars, rpc, first, createResult, histVars>>

(* --------------------------- JdwpState::Run --------------------------- *)
\* lines 280-281: thread_ = Thread::Current(); run = true;
RunBegin ==
  /\ rpc = "r_begin"
  /\ run' = TRUE
  /\ rpc' = "r_set_started"
  /\ UNCHANGED <<others, dbgVars, runHist, dtorHist, optVars, lockVars, debug_thread_started_, debugThreadId,
                 transport, netState, ddmActive, transVars, cpc, first,
                 createResult, histVars>>

\* line 282: android_atomic_release_store(true, &debug_thread_started_)
RunSetStarted ==
  /\ rpc = "r_set_started"
  /\ debug_thread_started_' = TRUE
  /\ rpc' = "r_lock_start"
  /\ UNCHANGED <<others, dbgVars, runHist, dtorHist, optVars, lockVars, debugThreadId, run, transport, netState,
                 ddmActive, transVars, cpc, first, createResult, histVars>>

\* line 284: thread_start_lock_.Lock()
RunLockStart ==
  /\ rpc = "r_lock_start"
  /\ thread_start_lock_ = Free
  /\ thread_start_lock_' = JdwpThread
  /\ rpc' = "r_bcast_start"
  /\ UNCHANGED <<others, dbgVars, runHist, dtorHist, optVars, thread_start_cond_, attach_lock_, attach_cond_,
                 stateVars, transVars, cpc, first, createResult, histVars>>

\* line 285: thread_start_cond_.Broadcast()
RunBroadcastStart ==
  /\ rpc = "r_bcast_start"
  /\ thread_start_cond_' = {}
  /\ startBroadcasts' = startBroadcasts + 1
  /\ rpc' = "r_unlock_start"
  /\ UNCHANGED <<others, dbgVars, runHist, dtorHist, optVars, thread_start_lock_, attach_lock_, attach_cond_,
                 stateVars, transVars, cpc, first, createResult, attachLog,
                 attachReleases, connCount, estFailed, closedSinceAttach,
                 joined, postVMDeaths, shutdowns, frees>>

\* lines 286-289: thread_start_lock_.Unlock(); Dbg::ThreadWaiting();
RunUnlockStart ==
  /\ rpc = "r_unlock_start"
  /\ thread_start_lock_' = Free
  /\ threadState' = "waiting"
  /\ rpc' = "r_loop"
  /\ UNCHANGED <<others, gDebuggerConnected, runHist, dtorHist, optVars, thread_start_cond_, attach_lock_, attach_cond_,
                 stateVars, transVars, cpc, first, createResult, histVars>>

\* lines 299-300: while (run) { if (options_->server)
RunLoopTest ==
  /\ rpc = "r_loop"
  /\ rpc' = IF run
              THEN IF options_server THEN "r_accept" ELSE "r_establish"
              ELSE "r_exit"
  /\ exitCause' = IF run THEN exitCause ELSE "run_cleared"
  /\ UNCHANGED <<others, dbgVars, endCause, establishCalls, acceptCalls, dbgLog, resetLog, dtorHist, optVars, lockVars, stateVars, transVars, cpc, first,
                 createResult, histVars>>

\* lines 305-307: if (!(*transport->accept)(this)) break; accept blocks
\* until a peer connects or the transport is shut down
RunAccept ==
  /\ rpc = "r_accept"
  /\ acceptCalls' = acceptCalls + 1
  /\ \E ok \in BOOLEAN :
       IF ok
         THEN /\ ~shutdownCalled
              /\ connCount < MaxConnections
              /\ connected' = TRUE
              /\ procOk' = 0
              /\ connCount' = connCount + 1
              /\ rpc' = "r_connected"
              /\ UNCHANGED exitCause
         ELSE /\ shutdownCalled
              /\ rpc' = "r_exit"
              /\ exitCause' = "accept_failed"
              /\ UNCHANGED <<connected, procOk, connCount>>
  /\ UNCHANGED <<others, dbgVars, endCause, establishCalls, dbgLog, resetLog, dtorHist, optVars, lockVars, stateVars, shutdownCalled, handshakeK,
                 disposed, cpc, first, createResult, startBroadcasts,
                 attachLog, attachReleases, estFailed, closedSinceAttach,
                 joined, postVMDeaths, shutdowns, frees>>

\* line 315: if (!(*transport->establish)(this)) {; establish fails on
\* timeout or shutdown
RunEstablish ==
  /\ rpc = "r_establish"
  /\ establishCalls' = establishCalls + 1
  /\ \E ok \in BOOLEAN :
       IF ok
         THEN /\ ~shutdownCalled
              /\ connCount < MaxConnections
              /\ connected' = TRUE
              /\ procOk' = 0
              /\ connCount' = connCount + 1
              /\ rpc' = "r_connected"
              /\ UNCHANGED <<estFailed, exitCause>>
         ELSE /\ estFailed' = TRUE
              /\ exitCause' = "establish_failed"
              /\ rpc' = "r_estfail_lock"
              /\ UNCHANGED <<connected, procOk, connCount>>
  /\ UNCHANGED <<others, dbgVars, endCause, acceptCalls, dbgLog, resetLog, dtorHist, optVars, lockVars, stateVars, shutdownCalled, handshakeK,
                 disposed, cpc, first, createResult, startBroadcasts,
                 attachLog, attachReleases, closedSinceAttach, joined,
                 postVMDeaths, shutdowns, frees>>

\* line 317: MutexLock mu(attach_lock_)
RunEstFailLock ==
  /\ rpc = "r_estfail_lock"
  /\ attach_lock_ = Free
  /\ attach_lock_' = JdwpThread
  /\ rpc' = "r_estfail_bcast"
  /\ UNCHANGED <<others, dbgVars, runHist, dtorHist, optVars, thread_start_lock_, thread_start_cond_, attach_cond_,
                 stateVars, transVars, cpc, first, createResult, histVars>>

\* what an attach_cond_ broadcast finds
AttachEntry(cause) ==
  [cause |-> cause, connected |-> IsConnected, awaiting |-> awaitingHandshake,
   procOk |-> procOk, conn |-> connCount, server |-> options_server,
   waiting |-> Creator \in attach_cond_]

\* Run without the broadcast of line 318
RunEstFailNoBroadcast ==
  /\ rpc = "r_estfail_bcast"
  /\ rpc' = "r_estfail_unlock"
  /\ UNCHANGED <<others, dbgVars, runHist, dtorHist, optVars, lockVars, stateVars, transVars, cpc, first,
                 createResult, histVars>>

\* line 318: attach_cond_.Broadcast()
RunEstFailBroadcast ==
  /\ rpc = "r_estfail_bcast"
  /\ attach_cond_' = {}
  /\ attachLog' = Append(attachLog, AttachEntry("establish_failed"))
  /\ rpc' = "r_estfail_unlock"
  /\ UNCHANGED <<others, dbgVars, runHist, dtorHist, optVars, thread_start_lock_, thread_start_cond_, attach_lock_,
                 stateVars, transVars, cpc, first, createResult,
                 startBroadcasts, attachReleases, connCount, estFailed,
                 closedSinceAttach, joined, postVMDeaths, shutdowns, frees>>

\* lines 319-320: break; leaving the block releases attach_lock_
RunEstFailUnlock ==
  /\ rpc = "r_estfail_unlock"
  /\ attach_lock_' = Free
  /\ rpc' = "r_exit"
  /\ UNCHANGED <<others, dbgVars, runHist, dtorHist, optVars, thread_start_lock_, thread_start_cond_, attach_cond_,
                 stateVars, transVars, cpc, first, createResult, histVars>>

\* Run without the call of line 324
RunConnectedOmitted ==
  /\ rpc = "r_connected"
  /\ resetLog' = <<>>
  /\ disposed' = FALSE
  /\ first' = TRUE
  /\ endCause' = "none"
  /\ rpc' = "r_inner"
  /\ UNCHANGED <<others, dbgVars, exitCause, establishCalls, acceptCalls, dbgLog,
                 dtorHist, optVars, lockVars, stateVars, connected,
                 shutdownCalled, handshakeK, procOk, cpc, createResult, histVars>>

\* lines 324-327: Dbg::Connected(); bool first = true;
RunConnected ==
  /\ rpc = "r_connected"
  /\ gDebuggerConnected' = TRUE
  /\ dbgLog' = Append(dbgLog, [call |-> "Connected", conn |-> connCount])
  /\ resetLog' = <<>>
  /\ disposed' = FALSE
  /\ first' = TRUE
  /\ endCause' = "none"
  /\ rpc' = "r_inner"
  /\ UNCHANGED <<others, threadState, exitCause, establishCalls, acceptCalls,
                 dtorHist, optVars, lockVars, stateVars, connected,
                 shutdownCalled, handshakeK, procOk, cpc, createResult, histVars>>

\* line 328: while (!Dbg::IsDisposed())
RunInnerTest ==
  /\ rpc = "r_inner"
  /\ rpc' = IF ~disposed THEN "r_process" ELSE "r_close"
  /\ endCause' = IF ~disposed THEN endCause ELSE "disposed"
  /\ UNCHANGED <<others, dbgVars, exitCause, establishCalls, acceptCalls, dbgLog,
                 resetLog, dtorHist, optVars, lockVars, stateVars, transVars,
                 cpc, first, createResult, histVars>>

\* lines 335-338: if (!(*transport->processIncoming)(this)) break;
\* a successful call handles one unit of traffic: once the handshake is done
\* that may be a request that disposes the session or one that starts DDM
RunProcessIncoming ==
  /\ rpc = "r_process"
  /\ \E ok \in BOOLEAN :
       IF ok
         THEN /\ ~shutdownCalled
              /\ connected
              /\ procOk < MaxProcess
              /\ procOk' = procOk + 1
              /\ disposed' \in (IF awaitingHandshake THEN {FALSE} ELSE BOOLEAN)
              /\ ddmActive' \in (IF awaitingHandshake THEN {ddmActive}
                                                     ELSE {ddmActive, TRUE})
              /\ rpc' = "r_check_hs"
              /\ UNCHANGED endCause
         ELSE /\ rpc' = "r_close"
              /\ endCause' = "failed"
              /\ UNCHANGED <<procOk, disposed, ddmActive>>
  /\ UNCHANGED <<others, dbgVars, exitCause, establishCalls, acceptCalls, dbgLog,
                 resetLog, dtorHist, optVars, lockVars, debug_thread_started_,
                 debugThreadId, run, transport, netState, connected,
                 shutdownCalled, handshakeK, cpc, first, createResult, histVars>>

\* line 340 without the test of "first"
RunCheckHandshakeEveryCall ==
  /\ rpc = "r_check_hs"
  /\ IF ~awaitingHandshake
       THEN /\ first' = FALSE
            /\ debugThreadId' = 1
            /\ rpc' = "r_hs_lock"
       ELSE /\ rpc' = "r_inner"
            /\ UNCHANGED <<first, debugThreadId>>
  /\ UNCHANGED <<others, dbgVars, runHist, dtorHist, optVars, lockVars, debug_thread_started_, run, transport,
                 netState, ddmActive, transVars, cpc, createResult, histVars>>

\* line 340 without the test of awaitingHandshake
RunCheckHandshakeEarly ==
  /\ rpc = "r_check_hs"
  /\ IF first
       THEN /\ first' = FALSE
            /\ debugThreadId' = 1
            /\ rpc' = "r_hs_lock"
       ELSE /\ rpc' = "r_inner"
            /\ UNCHANGED <<first, debugThreadId>>
  /\ UNCHANGED <<others, dbgVars, runHist, dtorHist, optVars, lockVars, debug_thread_started_, run, transport,
                 netState, ddmActive, transVars, cpc, createResult, histVars>>

\* lines 340-345: if (first && !(*transport->awaitingHandshake)(this)) {
\*   first = false; debugThreadId = Dbg::GetThreadSelfId();
RunCheckHandshake ==
  /\ rpc = "r_check_hs"
  /\ IF first /\ ~awaitingHandshake
       THEN /\ first' = FALSE
            /\ debugThreadId' = 1
            /\ rpc' = "r_hs_lock"
       ELSE /\ rpc' = "r_inner"
            /\ UNCHANGED <<first, debugThreadId>>
  /\ UNCHANGED <<others, dbgVars, runHist, dtorHist, optVars, lockVars, debug_thread_started_, run, transport,
                 netState, ddmActive, transVars, cpc, createResult, histVars>>

\* line 348: MutexLock mu(attach_lock_)
RunHsLock ==
  /\ rpc = "r_hs_lock"
  /\ attach_lock_ = Free
  /\ attach_lock_' = JdwpThread
  /\ rpc' = "r_hs_bcast"
  /\ UNCHANGED <<others, dbgVars, runHist, dtorHist, optVars, thread_start_lock_, thread_start_cond_, attach_cond_,
                 stateVars, transVars, cpc, first, createResult, histVars>>

\* line 349: attach_cond_.Broadcast()
RunHsBroadcast ==
  /\ rpc = "r_hs_bcast"
  /\ attach_cond_' = {}
  /\ attachLog' = Append(attachLog, AttachEntry("handshake"))
  /\ closedSinceAttach' = FALSE
  /\ rpc' = "r_hs_unlock"
  /\ UNCHANGED <<others, dbgVars, runHist, dtorHist, optVars, thread_start_lock_, thread_start_cond_, attach_lock_,
                 stateVars, transVars, cpc, first, createResult,
                 startBroadcasts, attachReleases, connCount, estFailed,
                 joined, postVMDeaths, shutdowns, frees>>

\* line 350 with attach_lock_ kept beyond the block
RunHsUnlockOmitted ==
  /\ rpc = "r_hs_unlock"
  /\ rpc' = "r_inner"
  /\ UNCHANGED <<others, dbgVars, runHist, dtorHist, optVars, lockVars, stateVars,
                 transVars, cpc, first, createResult, histVars>>

\* line 350: leaving the block releases attach_lock_
RunHsUnlock ==
  /\ rpc = "r_hs_unlock"
  /\ attach_lock_' = Free
  /\ rpc' = "r_inner"
  /\ UNCHANGED <<others, dbgVars, runHist, dtorHist, optVars, thread_start_lock_, thread_start_cond_, attach_cond_,
                 stateVars, transVars, cpc, first, createResult, histVars>>

\* a step of the reset sequence and the runtime state the JDWP thread is in
ResetStep(step) == [step |-> step, thread |-> threadState]

\* line 353: (*transport->close)(this)
RunClose ==
  /\ rpc = "r_close"
  /\ connected' = FALSE
  /\ closedSinceAttach' = TRUE
  /\ resetLog' = <<ResetStep("close")>>
  /\ rpc' = "r_ddm"
  /\ UNCHANGED <<others, dbgVars, endCause, exitCause, establishCalls, acceptCalls,
                 dbgLog, dtorHist, optVars, lockVars, stateVars, shutdownCalled,
                 handshakeK, procOk, disposed, cpc, first, createResult,
                 startBroadcasts, attachLog, attachReleases, connCount,
                 estFailed, joined, postVMDeaths, shutdowns, frees>>

\* lines 355-359: if (ddmActive) { ddmActive = false; Dbg::ThreadRunning();
RunDdm ==
  /\ rpc = "r_ddm"
  /\ IF ddmActive
       THEN /\ ddmActive' = FALSE
            /\ threadState' = "running"
            /\ rpc' = "r_ddm_disconnected"
       ELSE /\ rpc' = "r_reset"
            /\ UNCHANGED <<ddmActive, threadState>>
  /\ UNCHANGED <<others, gDebuggerConnected, runHist, dtorHist, optVars, lockVars,
                 debug_thread_started_, debugThreadId, run, transport, netState,
                 transVars, cpc, first, createResult, histVars>>

\* line 360: Dbg::DdmDisconnected()
RunDdmDisconnected ==
  /\ rpc = "r_ddm_disconnected"
  /\ resetLog' = Append(resetLog, ResetStep("DdmDisconnected"))
  /\ rpc' = "r_ddm_waiting"
  /\ UNCHANGED <<others, dbgVars, endCause, exitCause, establishCalls, acceptCalls,
                 dbgLog, dtorHist, optVars, lockVars, stateVars, transVars, cpc,
                 first, createResult, histVars>>

\* line 361: Dbg::ThreadWaiting()
RunDdmWaiting ==
  /\ rpc = "r_ddm_waiting"
  /\ threadState' = "waiting"
  /\ rpc' = "r_reset"
  /\ UNCHANGED <<others, gDebuggerConnected, runHist, dtorHist, optVars, lockVars,
                 stateVars, transVars, cpc, first, createResult, histVars>>

\* Run without the call of line 365
RunResetStateOmitted ==
  /\ rpc = "r_reset"
  /\ rpc' = "r_disconnected"
  /\ UNCHANGED <<others, dbgVars, runHist, dtorHist, optVars, lockVars, stateVars,
                 transVars, cpc, first, createResult, histVars>>

\* line 365: ResetState()
RunResetState ==
  /\ rpc = "r_reset"
  /\ ResetState
  /\ resetLog' = Append(resetLog, ResetStep("ResetState"))
  /\ rpc' = "r_disconnected"
  /\ UNCHANGED <<serialRest, sinkVars, lastActivityWhen, now, apc, alast, activityResult,
                 dbgVars, endCause, exitCause, establishCalls, acceptCalls,
                 dbgLog, dtorHist, optVars, lockVars, debug_thread_started_,
                 run, transport, netState, ddmActive, transVars, cpc, first,
                 createResult, histVars>>

\* line 368: Dbg::Disconnected()
RunDisconnected ==
  /\ rpc = "r_disconnected"
  /\ gDebuggerConnected' = FALSE
  /\ dbgLog' = Append(dbgLog, [call |-> "Disconnected", conn |-> connCount])
  /\ resetLog' = Append(resetLog, ResetStep("Disconnected"))
  /\ rpc' = "r_undo"
  /\ UNCHANGED <<others, threadState, endCause, exitCause, establishCalls,
                 acceptCalls, dtorHist, optVars, lockVars, stateVars, transVars,
                 cpc, first, createResult, histVars>>

\* line 371: Dbg::UndoDebuggerSuspensions()
RunUndoDebuggerSuspensions ==
  /\ rpc = "r_undo"
  /\ resetLog' = Append(resetLog, ResetStep("UndoDebuggerSuspensions"))
  /\ rpc' = "r_oneshot"
  /\ UNCHANGED <<others, dbgVars, endCause, exitCause, establishCalls, acceptCalls,
                 dbgLog, dtorHist, optVars, lockVars, stateVars, transVars, cpc,
                 first, createResult, histVars>>

\* Run without lines 374-376
RunOneShotOmitted ==
  /\ rpc = "r_oneshot"
  /\ rpc' = "r_loop"
  /\ UNCHANGED <<others, dbgVars, runHist, dtorHist, optVars, lockVars, stateVars,
                 transVars, cpc, first, createResult, histVars>>

\* lines 374-376 without the test of options_->server
RunOneShotAlways ==
  /\ rpc = "r_oneshot"
  /\ run' = FALSE
  /\ rpc' = "r_loop"
  /\ UNCHANGED <<others, dbgVars, runHist, dtorHist, optVars, lockVars,
                 debug_thread_started_, debugThreadId, transport, netState,
                 ddmActive, transVars, cpc, first, createResult, histVars>>

\* lines 374-376: if (!options_->server) run = false;
RunOneShot ==
  /\ rpc = "r_oneshot"
  /\ run' = IF ~options_server THEN FALSE ELSE run
  /\ rpc' = "r_loop"
  /\ UNCHANGED <<others, dbgVars, runHist, dtorHist, optVars, lockVars, debug_thread_started_, debugThreadId,
                 transport, netState, ddmActive, transVars, cpc, first,
                 createResult, histVars>>

\* lines 380-383: Dbg::ThreadRunning(); DetachCurrentThread(); Run returns
RunExit ==
  /\ rpc = "r_exit"
  /\ threadState' = "running"
  /\ rpc' = "r_exited"
  /\ UNCHANGED <<others, gDebuggerConnected, runHist, dtorHist, optVars, lockVars,
                 stateVars, transVars, cpc, first, createResult, histVars>>

CreateNext ==
  \/ CreateStartup \/ CreateLockStart \/ CreateLockAttach \/ CreateSpawn
  \/ CreateWaitStart \/ CreateWakeStart \/ CreateUnlockStart
  \/ CreateWaitAttach \/ CreateWakeAttach \/ CreateUnlockAttach
  \/ CreateCheckActive

DtorNext ==
  \/ TeardownStart \/ DtorPostVMDeath \/ DtorShutdown \/ DtorClearRun
  \/ DtorJoin \/ DtorFree \/ DtorReset

\* Run up to its loop
RunStartNext ==
  \/ RunBegin \/ RunSetStarted \/ RunLockStart \/ RunBroadcastStart
  \/ RunUnlockStart

\* Run from its loop on
RunLoopNext ==
  \/ RunLoopTest \/ RunAccept \/ RunEstablish
  \/ RunEstFailLock \/ RunEstFailBroadcast \/ RunEstFailUnlock
  \/ RunConnected \/ RunInnerTest \/ RunProcessIncoming \/ RunCheckHandshake
  \/ RunHsLock \/ RunHsBroadcast \/ RunHsUnlock \/ RunClose \/ RunDdm
  \/ RunDdmDisconnected \/ RunDdmWaiting \/ RunResetState \/ RunDisconnected
  \/ RunUndoDebuggerSuspensions \/ RunOneShot \/ RunExit

RunNext == RunStartNext \/ RunLoopNext

LifeNext == CreateNext \/ DtorNext \/ RunNext

(* ------------- NextRequestSerial / NextEventSerial (73-85) ------------ *)
\* uint32_t increment: v + 1 modulo 2^32, computed on the 16-bit halves
Inc32(v) ==
  LET hi == v \div Half
      lo == v % Half
  IN  IF lo + 1 < Half THEN hi * Half + (lo + 1)
      ELSE IF hi + 1 < Half THEN (hi + 1) * Half
      ELSE 0

SerialCallsBegun ==
  Len(reqReturned) + Len(evtReturned) + Cardinality({t \in Callers : spc[t] # "idle"})

\* lines 74, 83 without waiting for serial_lock_
SerialLockNoMutex(t) ==
  /\ cpc = "c_returned"
  /\ spc[t] = "idle"
  /\ SerialCallsBegun < MaxSerialCalls
  /\ serial_lock_' = serial_lock_ \cup {t}
  /\ \E k \in {"request", "event"} : skind' = [skind EXCEPT ![t] = k]
  /\ spc' = [spc EXCEPT ![t] = "locked"]
  /\ UNCHANGED <<requestSerial, eventSerial, stmp, reqReturned, evtReturned,
                 sinkVars, lifeVars>>

\* lines 74, 83: MutexLock mu(serial_lock_); callers hold a session that
\* Create has returned
SerialLock(t) ==
  /\ cpc = "c_returned"
  /\ spc[t] = "idle"
  /\ SerialCallsBegun < MaxSerialCalls
  /\ serial_lock_ = {}
  /\ serial_lock_' = serial_lock_ \cup {t}
  /\ \E k \in {"request", "event"} : skind' = [skind EXCEPT ![t] = k]
  /\ spc' = [spc EXCEPT ![t] = "locked"]
  /\ UNCHANGED <<requestSerial, eventSerial, stmp, reqReturned, evtReturned,
                 sinkVars, lifeVars>>

\* lines 75, 84: the read of requestSerial++ / eventSerial++
SerialRead(t) ==
  /\ spc[t] = "locked"
  /\ stmp' = [stmp EXCEPT ![t] = IF skind[t] = "request" THEN requestSerial
                                                         ELSE eventSerial]
  /\ spc' = [spc EXCEPT ![t] = "read"]
  /\ UNCHANGED <<requestSerial, eventSerial, serial_lock_, skind, reqReturned,
                 evtReturned, sinkVars, lifeVars>>

\* lines 75, 84: the write of requestSerial++ / eventSerial++
SerialIncrement(t) ==
  /\ spc[t] = "read"
  /\ IF skind[t] = "request"
       THEN requestSerial' = Inc32(stmp[t]) /\ UNCHANGED eventSerial
       ELSE eventSerial' = Inc32(stmp[t]) /\ UNCHANGED requestSerial
  /\ spc' = [spc EXCEPT ![t] = "written"]
  /\ UNCHANGED <<serial_lock_, skind, stmp, reqReturned, evtReturned,
                 sinkVars, lifeVars>>

\* lines 76, 85: the pre-increment value is returned and mu releases
\* serial_lock_
SerialReturn(t) ==
  /\ spc[t] = "written"
  /\ serial_lock_' = serial_lock_ \ {t}
  /\ IF skind[t] = "request"
       THEN /\ reqReturned' = Append(reqReturned, stmp[t])
            /\ UNCHANGED evtReturned
       ELSE /\ evtReturned' = Append(evtReturned, stmp[t])
            /\ UNCHANGED reqReturned
  /\ spc' = [spc EXCEPT ![t] = "idle"]
  /\ UNCHANGED <<requestSerial, eventSerial, skind, stmp, sinkVars, lifeVars>>

SerialNext ==
  \E t \in Callers :
    SerialLock(t) \/ SerialRead(t) \/ SerialIncrement(t) \/ SerialReturn(t)

(* ------------------- JdwpNetStateBase writers (45-59) ----------------- *)
WritesBegun ==
  Len(writeLog) + Cardinality({w \in Writers : wpc[w] # "idle"})

\* line 49: MutexLock mu(socket_lock_), then into write(clientSock, ...)
writePacket(w) ==
  /\ wpc[w] = "idle"
  /\ WritesBegun < MaxWrites
  /\ socket_lock_ = {}
  /\ socket_lock_' = socket_lock_ \cup {w}
  /\ wkind' = [wkind EXCEPT ![w] = "writePacket"]
  /\ wpc' = [wpc EXCEPT ![w] = "in_write"]
  /\ UNCHANGED <<writeLog, serialVars, lifeVars>>

\* writeBufferedPacket without line 57
writeBufferedPacketNoLock(w) ==
  /\ wpc[w] = "idle"
  /\ WritesBegun < MaxWrites
  /\ wkind' = [wkind EXCEPT ![w] = "writeBufferedPacket"]
  /\ wpc' = [wpc EXCEPT ![w] = "in_write"]
  /\ UNCHANGED <<socket_lock_, writeLog, serialVars, lifeVars>>

\* line 57: MutexLock mu(socket_lock_), then into writev(clientSock, ...)
writeBufferedPacket(w) ==
  /\ wpc[w] = "idle"
  /\ WritesBegun < MaxWrites
  /\ socket_lock_ = {}
  /\ socket_lock_' = socket_lock_ \cup {w}
  /\ wkind' = [wkind EXCEPT ![w] = "writeBufferedPacket"]
  /\ wpc' = [wpc EXCEPT ![w] = "in_write"]
  /\ UNCHANGED <<writeLog, serialVars, lifeVars>>

\* lines 50, 58: write / writev returns, with success or with an error
SinkWriteReturn(w) ==
  /\ wpc[w] = "in_write"
  /\ \E ok \in BOOLEAN :
       writeLog' = Append(writeLog, [writer |-> w, op |-> wkind[w], ok |-> ok])
  /\ wpc' = [wpc EXCEPT ![w] = "returning"]
  /\ UNCHANGED <<socket_lock_, wkind, serialVars, lifeVars>>

\* lines 51, 59: mu's destructor releases socket_lock_ as the call returns
SinkUnlock(w) ==
  /\ wpc[w] = "returning"
  /\ socket_lock_' = socket_lock_ \ {w}
  /\ wpc' = [wpc EXCEPT ![w] = "idle"]
  /\ UNCHANGED <<wkind, writeLog, serialVars, lifeVars>>

SinkNext ==
  \E w \in Writers :
    writePacket(w) \/ writeBufferedPacket(w) \/ SinkWriteReturn(w) \/ SinkUnlock(w)

(* ------------------ LastDebuggerActivity (416-436) -------------------- *)
\* MilliTime(): a millisecond clock that never runs backwards
MilliTimeAdvance ==
  /\ now < MaxNow
  /\ now' = now + 1
  /\ UNCHANGED <<eventThreadId, lastActivityWhen, apc, alast, activityResult,
                 lifeCore, serialVars, sinkVars>>

\* the request handler, inside processIncoming, marks the session busy when
\* it starts on a request ...
HandlerBegin ==
  /\ rpc = "r_process" /\ connected
  /\ lastActivityWhen' = 0
  /\ UNCHANGED <<eventThreadId, now, apc, alast, activityResult,
                 lifeCore, serialVars, sinkVars>>

\* ... and stores the time when it has replied
HandlerEnd ==
  /\ rpc = "r_process" /\ connected
  /\ lastActivityWhen' = now
  /\ UNCHANGED <<eventThreadId, now, apc, alast, activityResult,
                 lifeCore, serialVars, sinkVars>>

\* the outcome of a call: what it found and what it returned; "aborted" is
\* the failure of CHECK_GE(now, last)
ActivityOutcome(conn, last, time, ret, aborted) ==
  <<[connected |-> conn, last |-> last, now |-> time, ret |-> ret,
     aborted |-> aborted]>>

\* lines 417-420: if (!Dbg::IsDebuggerConnected()) return -1;
LastDebuggerActivityEnter ==
  /\ apc = "idle"
  /\ IF ~gDebuggerConnected
       THEN /\ activityResult' =
                 ActivityOutcome(FALSE, lastActivityWhen, now, -1, FALSE)
            /\ UNCHANGED apc
       ELSE /\ activityResult' = <<>>
            /\ apc' = "read_last"
  /\ UNCHANGED <<eventThreadId, lastActivityWhen, now, alast,
                 lifeCore, serialVars, sinkVars>>

\* lines 422-428 without the test of the sentinel
LastDebuggerActivityReadNoBusyTest ==
  /\ apc = "read_last"
  /\ alast' = lastActivityWhen
  /\ apc' = "read_now"
  /\ UNCHANGED <<eventThreadId, lastActivityWhen, now, activityResult,
                 lifeCore, serialVars, sinkVars>>

\* lines 422-428: last = QuasiAtomicRead64(&lastActivityWhen);
\* if (last == 0) return 0;
LastDebuggerActivityRead ==
  /\ apc = "read_last"
  /\ alast' = lastActivityWhen
  /\ IF lastActivityWhen = 0
       THEN /\ activityResult' = ActivityOutcome(TRUE, 0, now, 0, FALSE)
            /\ apc' = "idle"
       ELSE /\ apc' = "read_now"
            /\ UNCHANGED activityResult
  /\ UNCHANGED <<eventThreadId, lastActivityWhen, now,
                 lifeCore, serialVars, sinkVars>>

\* lines 431-435: now = MilliTime(); CHECK_GE(now, last); return now - last;
LastDebuggerActivityReturn ==
  /\ apc = "read_now"
  /\ activityResult' =
       IF now >= alast
         THEN ActivityOutcome(TRUE, alast, now, now - alast, FALSE)
         ELSE ActivityOutcome(TRUE, alast, now, 0, TRUE)
  /\ apc' = "idle"
  /\ UNCHANGED <<eventThreadId, lastActivityWhen, now, alast,
                 lifeCore, serialVars, sinkVars>>

ActivityNext ==
  \/ MilliTimeAdvance \/ HandlerBegin \/ HandlerEnd
  \/ LastDebuggerActivityEnter \/ LastDebuggerActivityRead
  \/ LastDebuggerActivityReturn

(* --------------------------- specifications --------------------------- *)
Next == LifeNext

\* the life of a session, from construction to the end of teardown
Spec == Init /\ [][Next]_vars

\* Run's steps other than its three blocking transport calls
RunInternal ==
  \/ RunStartNext \/ RunLoopTest
  \/ RunEstFailLock \/ RunEstFailBroadcast \/ RunEstFailUnlock
  \/ RunConnected \/ RunInnerTest \/ RunCheckHandshake
  \/ RunHsLock \/ RunHsBroadcast \/ RunHsUnlock \/ RunClose \/ RunDdm
  \/ RunDdmDisconnected \/ RunDdmWaiting \/ RunResetState \/ RunDisconnected
  \/ RunUndoDebuggerSuspensions \/ RunOneShot \/ RunExit

\* ~JdwpState once it has been invoked
DtorSteps ==
  \/ DtorPostVMDeath \/ DtorShutdown \/ DtorClearRun
  \/ DtorJoin \/ DtorFree \/ DtorReset

\* Both threads keep being scheduled; a blocking transport call is only
\* required to return once the transport has been shut down; nothing
\* obliges a peer to connect or the owner to discard the session.
Fairness ==
  /\ WF_vars(CreateNext)
  /\ WF_vars(DtorSteps)
  /\ WF_vars(RunInternal)
  /\ WF_vars(shutdownCalled /\ RunAccept)
  /\ WF_vars(shutdownCalled /\ RunEstablish)
  /\ WF_vars(shutdownCalled /\ RunProcessIncoming)

FairSpec == Init /\ [][Next]_vars /\ Fairness

\* a session Create has returned without suspend: the JDWP thread is about
\* to test "run" for the first time
InitReturned ==
  /\ options_server \in BOOLEAN
  /\ options_suspend = FALSE
  /\ thread_start_lock_ = Free
  /\ thread_start_cond_ = {}
  /\ debug_thread_started_ = TRUE
  /\ debugThreadId = 0
  /\ run = TRUE
  /\ transport = "bound"
  /\ netState = "netstate"
  /\ attach_lock_ = Free
  /\ attach_cond_ = {}
  /\ ddmActive = FALSE
  /\ connected = FALSE
  /\ shutdownCalled = FALSE
  /\ handshakeK \in 1..MaxK
  /\ procOk = 0
  /\ disposed = FALSE
  /\ cpc = "c_returned"
  /\ rpc = "r_loop"
  /\ first = FALSE
  /\ createResult = "state"
  /\ startBroadcasts = 1
  /\ attachLog = <<>>
  /\ attachReleases = 0
  /\ connCount = 0
  /\ estFailed = FALSE
  /\ closedSinceAttach = FALSE
  /\ joined = FALSE
  /\ postVMDeaths = 0
  /\ shutdowns = 0
  /\ frees = 0
  /\ threadState = "waiting"
  /\ gDebuggerConnected = FALSE
  /\ endCause = "none"
  /\ exitCause = "none"
  /\ establishCalls = 0
  /\ acceptCalls = 0
  /\ dbgLog = <<>>
  /\ resetLog = <<>>
  /\ startupFailed = FALSE
  /\ dtorLog = <<>>

SerialSessionNext == SerialNext \/ RunLoopNext

\* serial numbers drawn from a returned session while the JDWP thread serves
\* connections (and resets the session state after each), with a transport
\* whose handshake takes one processIncoming call
InitSerialSession ==
  InitReturned /\ handshakeK = 1 /\ InitExt /\ InitSerial /\ InitSink

SpecSerial == InitSerialSession /\ [][SerialSessionNext]_vars

\* the packet writers of one JdwpNetStateBase
SpecSink == Init /\ [][SinkNext]_vars

ActivitySessionNext == ActivityNext \/ RunLoopNext

\* calls of LastDebuggerActivity on a returned session while the JDWP thread
\* serves connections and the clock runs
SpecActivity == InitSerialSession /\ [][ActivitySessionNext]_vars

(* ------------------------------ claims -------------------------------- *)
\* positions of the creating thread after thread_start_cond_.Wait has returned
PastStartWait ==
  {"c_unlock_start", "c_wait_attach", "c_attach_waiting", "c_unlock_attach",
   "c_check_active", "c_returned"}

\* C1: Create does not get past its wait on thread_start_cond_ (so does not
\* return a session) before the JDWP thread has set debug_thread_started_ and
\* broadcast thread_start_cond_; and the broadcast always finds the creator
\* already waiting, so it cannot be missed.
C1_StartupOrdering ==
  /\ (cpc \in PastStartWait \/ createResult = "state")
       => (debug_thread_started_ /\ startBroadcasts = 1)
  /\ rpc = "r_bcast_start" => Creator \in thread_start_cond_

C1_Witness ==
  cpc = "c_returned" /\ createResult = "state" /\ startBroadcasts = 1

\* broadcasts of attach_cond_ made because a handshake completed
HandshakeEntries ==
  {i \in 1..Len(attachLog) : attachLog[i].cause = "handshake"}

\* the creator's wait on attach_cond_ was released by a handshake broadcast
ReleasedByHandshake ==
  /\ attachReleases > 0
  /\ \E i \in HandshakeEntries : attachLog[i].waiting

\* C2 as stated: ..., and IsActive() is true when Create checks it after a
\* release by the handshake broadcast.
C2_Original ==
  (options_suspend /\ cpc = "c_check_active" /\ ReleasedByHandshake) => IsActive

\* what never happens around the creator's wait on attach_cond_
AttachReleaseSafe ==
  /\ attachReleases <= 1
  /\ \A i \in HandshakeEntries : attachLog[i].procOk = handshakeK
  /\ \A i, j \in HandshakeEntries : attachLog[i].conn = attachLog[j].conn => i = j
  /\ (attachReleases > 0 /\ ~estFailed) => ReleasedByHandshake
  /\ (cpc = "c_check_active" /\ ReleasedByHandshake /\ ~closedSinceAttach)
       => IsActive

\* C2 amended: with suspend, once a handshake has completed the creator's
\* wait on attach_cond_ is released exactly once; when no establish has failed
\* it is released only by the handshake broadcast, which is made when exactly
\* K processIncoming calls of the connection have succeeded and at most once
\* per connection; and IsActive() is true when Create checks it unless the
\* transport has been closed since the latest handshake broadcast.
C2_AttachRelease ==
  /\ [](options_suspend => AttachReleaseSafe)
  /\ (options_suspend /\ HandshakeEntries # {}) ~> (attachReleases = 1)

C2_Witness ==
  /\ options_suspend /\ handshakeK = 2
  /\ cpc = "c_check_active" /\ ReleasedByHandshake /\ IsActive

\* the case of C3: client mode, suspend, the establish call has failed
EstablishFailedCase == ~options_server /\ options_suspend /\ estFailed

\* Create has returned NULL, the JDWP thread has returned from Run and has
\* been joined
CreateFailedClean ==
  cpc = "d_done" /\ createResult = "null" /\ rpc = "r_exited" /\ joined

\* C3: in client mode with suspend, once establish has failed Create never
\* returns a session, and it does return NULL, at which point the JDWP thread
\* has exited and been joined.
C3_EstablishFailure ==
  /\ [](EstablishFailedCase => createResult # "state")
  /\ [](EstablishFailedCase /\ cpc = "d_done" => CreateFailedClean)
  /\ (EstablishFailedCase ~> CreateFailedClean)

C3_Witness == EstablishFailedCase /\ CreateFailedClean

\* C4: in client mode with suspend, when the connection was made and lost
\* before the handshake and the JDWP thread has exited, Create is not left
\* blocked in attach_cond_.Wait (it returns a failure indication).
C4_NoStrandedCreator ==
  ~ /\ options_suspend /\ ~options_server
    /\ rpc = "r_exited"
    /\ cpc = "c_attach_waiting"
    /\ Creator \in attach_cond_

\* C5: every broadcast of attach_cond_ is made either after a failed
\* client-mode establish (no connection exists) or when the handshake of the
\* current connection has just completed; so a released waiter in Create
\* means a completed handshake or a failed attempt, never a pending one.
C5_AttachBroadcasts ==
  /\ \A i \in 1..Len(attachLog) :
       LET e == attachLog[i] IN
         \/ e.cause = "establish_failed" /\ ~e.server /\ ~e.connected /\ e.conn = 0
         \/ e.cause = "handshake" /\ ~e.awaiting /\ e.procOk = handshakeK /\ e.conn > 0
  /\ attachReleases > 0 =>
       \E i \in 1..Len(attachLog) :
         /\ attachLog[i].waiting
         /\ \/ attachLog[i].cause = "establish_failed" /\ estFailed
            \/ attachLog[i].cause = "handshake" /\ ~attachLog[i].awaiting

C5_Witness ==
  /\ attachReleases = 1 /\ Len(attachLog) = 2
  /\ attachLog[1].cause = "handshake" /\ attachLog[2].cause = "handshake"

StrictlyIncreasing(seq) ==
  \A i, j \in 1..Len(seq) : i < j => seq[i] < seq[j]

\* C6: the values returned by each counter, in the order in which the calls
\* complete, are strictly increasing, hence pairwise distinct.
C6_SerialsIncrease ==
  StrictlyIncreasing(reqReturned) /\ StrictlyIncreasing(evtReturned)

C6_Witness ==
  /\ Len(reqReturned) = 2 /\ Len(evtReturned) = 1
  /\ \E t \in Callers : spc[t] = "idle" /\ stmp[t] = reqReturned[1]
  /\ \E t \in Callers : spc[t] = "idle" /\ stmp[t] = evtReturned[1]

\* calls of one counter that have written their increment and not yet returned
Written(kind) ==
  Cardinality({t \in Callers : spc[t] = "written" /\ skind[t] = kind})

\* C7: the k-th NextRequestSerial call to complete returns 0x10000000 + (k-1),
\* the k-th NextEventSerial call 0x20000000 + (k-1); each counter stands at its
\* base plus the number of increments made on it, so a call adds exactly one
\* to its own counter and nothing else (ResetState, reconnection) changes one.
C7_SerialValues ==
  /\ \A k \in 1..Len(reqReturned) : reqReturned[k] = RequestSerialBase + (k - 1)
  /\ \A k \in 1..Len(evtReturned) : evtReturned[k] = EventSerialBase + (k - 1)
  /\ requestSerial = RequestSerialBase + Len(reqReturned) + Written("request")
  /\ eventSerial = EventSerialBase + Len(evtReturned) + Written("event")

C7_Witness ==
  /\ Len(reqReturned) = 1 /\ Len(evtReturned) = 1
  /\ rpc = "r_accept" /\ connCount = 1
  /\ \E t \in Callers : spc[t] = "written"

InWrite == {w \in Writers : wpc[w] = "in_write"}

\* C8: at most one thread is inside write/writev at any time; socket_lock_ is
\* held exactly by the thread that is inside writePacket or
\* writeBufferedPacket, and is free again once the call has returned, whatever
\* the write returned.
C8_WriteExclusion ==
  /\ Cardinality(InWrite) <= 1
  /\ socket_lock_ = {w \in Writers : wpc[w] # "idle"}
  /\ Cardinality(socket_lock_) <= 1

C8_Witness ==
  /\ Len(writeLog) = 2
  /\ ~writeLog[1].ok /\ writeLog[1].op = "writePacket"
  /\ writeLog[2].op = "writeBufferedPacket" /\ writeLog[2].writer # writeLog[1].writer
  /\ \E w \in Writers : wpc[w] = "in_write"

\* C9: teardown invoked on a session that Create returned eventually
\* completes, with the JDWP thread out of its loop and joined.
C9_TeardownCompletes ==
  (cpc = "d_begin" /\ createResult = "state")
    ~> (cpc = "d_done" /\ rpc = "r_exited" /\ joined)

C9_Witness ==
  /\ cpc = "d_done" /\ createResult = "state" /\ joined
  /\ options_server /\ connCount = 0

\* C10: after teardown has completed, netState (the session's reference to
\* the transport's state) is NULL and no JDWP thread is alive: it was never
\* created, or it has returned from Run and been joined.
C10_AfterTeardown ==
  cpc = "d_done" =>
    /\ netState = NULL
    /\ rpc \in {"r_none", "r_exited"}
    /\ rpc = "r_exited" => joined

C10_Witness ==
  cpc = "d_done" /\ netState = NULL /\ rpc = "r_exited" /\ joined /\ connCount > 0

\* the handshake of the current (latest) connection has completed
HandshakeDone ==
  \E i \in HandshakeEntries : attachLog[i].conn = connCount

\* the case of C11: server mode, the connection that has just ended had
\* completed its handshake and ended because processIncoming failed, and the
\* JDWP thread is about to call accept again
BackAtAcceptAfterFailure ==
  /\ options_server
  /\ rpc = "r_accept"
  /\ connCount > 0
  /\ HandshakeDone
  /\ endCause = "failed"

\* C11: in server mode, after a connection that completed its handshake has
\* ended because processIncoming failed, debugThreadId and eventThreadId are
\* both 0 when the JDWP thread begins its next accept call.
C11_IdsCleared ==
  BackAtAcceptAfterFailure => (debugThreadId = 0 /\ eventThreadId = 0)

\* positions of ~JdwpState after it has cleared "run" (line 235)
RunClearedByTeardown == {"d_join", "d_free", "d_reset", "d_done"}

\* the JDWP thread is out of its loop
OutOfLoop == rpc \in {"r_exit", "r_exited"}

\* a server-mode thread leaves its loop only by a failed accept or by finding
\* "run" cleared, which only teardown does
ServerExitCauses ==
  OutOfLoop =>
    \/ exitCause = "accept_failed"
    \/ exitCause = "run_cleared" /\ cpc \in RunClearedByTeardown

\* C12: in server mode the JDWP thread leaves its loop only because accept
\* failed or because it found "run" cleared by teardown; and whenever a
\* connection ends (the transport is about to be closed), the thread goes
\* through the reset steps and calls accept again, unless it finds "run"
\* cleared by teardown.
C12_ServerLoops ==
  /\ [](options_server => ServerExitCauses)
  /\ (options_server /\ rpc = "r_close")
       ~> (rpc = "r_accept" \/ (OutOfLoop /\ cpc \in RunClearedByTeardown))

C12_Witness ==
  /\ options_server /\ rpc = "r_accept" /\ acceptCalls = 2 /\ connCount = 2
  /\ endCause = "disposed" /\ run

\* positions of the JDWP thread from the end of the reset steps of a
\* connection to its return from Run
AfterOneShot == {"r_loop", "r_exit", "r_exited"}

\* C13: in client mode the JDWP thread never calls accept and calls establish
\* at most once; once that call has been made the thread is never again about
\* to call establish; when the connection it made has ended, "run" is false
\* from the end of the reset steps on; and the thread leaves its loop only
\* because establish failed (no connection was made) or because it found "run"
\* cleared.
C13_ClientOneShot ==
  ~options_server =>
    /\ acceptCalls = 0 /\ rpc # "r_accept"
    /\ establishCalls <= 1
    /\ establishCalls = 1 => rpc # "r_establish"
    /\ connCount <= 1
    /\ (connCount = 1 /\ rpc \in AfterOneShot) => ~run
    /\ OutOfLoop =>
         \/ exitCause = "establish_failed" /\ connCount = 0 /\ establishCalls = 1
         \/ exitCause = "run_cleared"

C13_Witness ==
  /\ ~options_server /\ rpc = "r_exited" /\ cpc = "c_returned"
  /\ connCount = 1 /\ establishCalls = 1 /\ exitCause = "run_cleared" /\ ~run

\* C14: a call of LastDebuggerActivity that finds no debugger connected
\* returns -1 whatever lastActivityWhen holds; one that finds a debugger
\* connected and reads 0 from lastActivityWhen returns 0; any other call
\* returns the time it reads minus the timestamp it read (CHECK_GE does not
\* fail), which is not negative.
C14_LastActivity ==
  \A i \in 1..Len(activityResult) :
    LET r == activityResult[i] IN
      /\ ~r.aborted
      /\ ~r.connected => r.ret = -1
      /\ (r.connected /\ r.last = 0) => r.ret = 0
      /\ (r.connected /\ r.last # 0) => (r.ret = r.now - r.last /\ r.ret >= 0)

C14_Witness ==
  /\ Len(activityResult) = 1
  /\ activityResult[1].connected /\ activityResult[1].last # 0
  /\ activityResult[1].ret = 2 /\ lastActivityWhen = 0

\* the steps ~JdwpState has taken so far, in order
DtorStepNames == [i \in 1..Len(dtorLog) |-> dtorLog[i].step]

IsPrefix(a, b) ==
  Len(a) <= Len(b) /\ \A i \in 1..Len(a) : a[i] = b[i]

\* the steps of ~JdwpState on a bound transport, in the order of lines
\* 223-248
ExpectedDtorSteps ==
  (IF postVMDeaths = 1 THEN <<"PostVMDeath">> ELSE <<>>)
    \o <<"shutdown">>
    \o (IF debug_thread_started_ THEN <<"run = false", "join">> ELSE <<>>)
    \o <<"free", "netState = NULL", "ResetState">>

TeardownOrdered ==
  /\ transport # NULL => IsPrefix(DtorStepNames, ExpectedDtorSteps)
  /\ (cpc = "d_done" /\ transport # NULL) => DtorStepNames = ExpectedDtorSteps
  /\ frees <= 1 /\ postVMDeaths <= 1
  /\ \A i \in 1..Len(dtorLog) :
       dtorLog[i].step \in {"free", "netState = NULL", "ResetState"}
         => ~dtorLog[i].threadLive

\* the first step of ~JdwpState posts the notification exactly when the
\* transport reports a connection
PostVMDeathIffConnected ==
  (cpc = "d_begin" /\ cpc' = "d_shutdown")
    => ((postVMDeaths' = postVMDeaths + 1) <=> IsConnected)

\* C15: ~JdwpState on a bound transport takes its steps in this order:
\* PostVMDeath, if and only if the transport reports connected; shutdown;
\* run = false and the join of the JDWP thread (both taken when the thread
\* was started); free, exactly once; netState = NULL; ResetState.  From free
\* on, no JDWP thread exists that has not returned from Run.
C15_TeardownOrder ==
  /\ []TeardownOrdered
  /\ [][PostVMDeathIffConnected]_vars

C15_Witness ==
  /\ cpc = "d_done" /\ postVMDeaths = 1 /\ joined /\ Len(dtorLog) = 7
  /\ dtorLog[1].threadLive

\* the reset steps taken since the inner loop was last left, in order
ResetStepNames == [i \in 1..Len(resetLog) |-> resetLog[i].step]

\* the reset steps of lines 353-371, with and without the DDM branch
ResetStepsPlain ==
  <<"close", "ResetState", "Disconnected", "UndoDebuggerSuspensions">>

ResetStepsDdm ==
  <<"close", "DdmDisconnected", "ResetState", "Disconnected",
    "UndoDebuggerSuspensions">>

\* positions of the JDWP thread inside the reset steps
InReset ==
  {"r_ddm", "r_ddm_disconnected", "r_ddm_waiting", "r_reset", "r_disconnected",
   "r_undo"}

\* positions of the JDWP thread between the reset steps and the next
\* Dbg::Connected or the return from Run
PastReset ==
  {"r_oneshot", "r_loop", "r_accept", "r_establish", "r_estfail_lock",
   "r_estfail_bcast", "r_estfail_unlock", "r_exit", "r_exited"}

ResetOrdered ==
  /\ rpc \in InReset =>
       \/ IsPrefix(ResetStepNames, ResetStepsPlain)
       \/ IsPrefix(ResetStepNames, ResetStepsDdm)
  /\ (rpc \in PastReset /\ connCount > 0) =>
       /\ ResetStepNames \in {ResetStepsPlain, ResetStepsDdm}
       /\ ~ddmActive /\ ~connected
  /\ rpc \in {"r_reset", "r_disconnected", "r_undo"} => ~ddmActive
  /\ \A i \in 1..Len(resetLog) :
       resetLog[i].thread = IF resetLog[i].step = "DdmDisconnected"
                              THEN "running" ELSE "waiting"

\* the DDM branch is taken exactly when ddmActive is set, and clears it
DdmBranchIffActive ==
  rpc = "r_ddm" /\ rpc' # rpc =>
    IF ddmActive THEN rpc' = "r_ddm_disconnected" /\ ~ddmActive'
                 ELSE rpc' = "r_reset"

\* C16: every time the inner loop of Run is left, the JDWP thread takes, before
\* it goes back to accept or leaves Run: close; then, exactly when ddmActive is
\* set, the clearing of ddmActive and DdmDisconnected, called in the running
\* state, after which the thread is back in the waiting state; then
\* ResetState; then Dbg::Disconnected; then Dbg::UndoDebuggerSuspensions.
\* None is skipped and none precedes close.
C16_ResetOrder ==
  /\ []ResetOrdered
  /\ [][DdmBranchIffActive]_vars

C16_Witness ==
  /\ rpc = "r_accept" /\ connCount = 2 /\ ResetStepNames = ResetStepsDdm
  /\ threadState = "waiting"

\* positions at which the JDWP thread calls, and is inside, accept, establish
\* and processIncoming
InTransportCall == {"r_accept", "r_establish", "r_process"}

\* C17: while the JDWP thread is at or inside a call of accept, establish or
\* processIncoming it holds none of thread_start_lock_, attach_lock_ and
\* serial_lock_.
C17_NoLockAcrossCall ==
  rpc \in InTransportCall =>
    /\ thread_start_lock_ # JdwpThread
    /\ attach_lock_ # JdwpThread
    /\ JdwpThread \notin serial_lock_

C17_Witness ==
  /\ rpc = "r_process" /\ HandshakeDone /\ procOk = handshakeK
  /\ options_suspend /\ attach_lock_ = Creator

\* the JDWP thread is blocked in Lock() on a mutex that is held
ThreadBlockedOnMutex ==
  \/ rpc = "r_lock_start" /\ thread_start_lock_ # Free
  \/ rpc \in {"r_estfail_lock", "r_hs_lock"} /\ attach_lock_ # Free

\* the creating thread is blocked in Lock(), or taking the mutex back inside
\* Wait after a broadcast, on a mutex that is held
CreatorBlockedOnMutex ==
  \/ cpc = "c_lock_start" /\ thread_start_lock_ # Free
  \/ cpc = "c_lock_attach" /\ options_suspend /\ attach_lock_ # Free
  \/ cpc = "c_start_waiting" /\ Creator \notin thread_start_cond_
       /\ thread_start_lock_ # Free
  \/ cpc = "c_attach_waiting" /\ Creator \notin attach_cond_
       /\ attach_lock_ # Free

\* positions of the creating thread before it has begun to wait on
\* attach_cond_
BeforeAttachWait ==
  {"c_startup", "c_lock_start", "c_lock_attach", "c_spawn", "c_wait_start",
   "c_start_waiting", "c_unlock_start", "c_wait_attach"}

\* whichever thread waits for a mutex, the other one can take a step; and
\* attach_cond_ is never broadcast before the creator waits on it
NoLockCycle ==
  /\ ThreadBlockedOnMutex => ENABLED CreateNext
  /\ CreatorBlockedOnMutex => ENABLED RunNext
  /\ ~(ThreadBlockedOnMutex /\ CreatorBlockedOnMutex)
  /\ Len(attachLog) > 0 => (attachLog[1].waiting /\ cpc \notin BeforeAttachWait)

\* the creating thread is inside thread_start_cond_.Wait, or waits for a mutex
CreatorHeldUp == cpc = "c_start_waiting" \/ CreatorBlockedOnMutex

BetweenNotifications ==
  {"r_inner", "r_process", "r_check_hs", "r_hs_lock", "r_hs_bcast",
   "r_hs_unlock", "r_close", "r_ddm", "r_ddm_disconnected", "r_ddm_waiting",
   "r_reset", "r_disconnected"}

\* the number of notifications Dbg has been given when the JDWP thread is at
\* its present position
ExpectedNotifications ==
  IF rpc = "r_connected" THEN 2 * (connCount - 1)
  ELSE IF rpc \in BetweenNotifications THEN 2 * connCount - 1
  ELSE 2 * connCount

\* C19: the notifications given to Dbg alternate, starting with Connected:
\* the k-th connection made by accept/establish gets exactly one Connected,
\* before any processIncoming of that connection, and exactly one
\* Disconnected, before the next accept/establish or the return from Run; a
\* failed accept or establish gets neither.
C19_Notifications ==
  /\ \A i \in 1..Len(dbgLog) :
       /\ dbgLog[i].call = IF i % 2 = 1 THEN "Connected" ELSE "Disconnected"
       /\ dbgLog[i].conn = (i + 1) \div 2
  /\ Len(dbgLog) = ExpectedNotifications
  /\ gDebuggerConnected <=> (Len(dbgLog) % 2 = 1)

C19_Witness ==
  /\ Len(dbgLog) = 4 /\ rpc = "r_exited" /\ exitCause = "accept_failed"
  /\ acceptCalls = 3

\* positions of ~JdwpState other than the join
DtorWithoutJoin ==
  {"d_begin", "d_shutdown", "d_check_started", "d_free", "d_reset", "d_done"}

\* positions of ~JdwpState after lines 234-240
PastJoin == {"d_free", "d_reset", "d_done"}

\* C20: when startup fails, Create returns NULL with no JDWP thread created
\* and neither thread_start_lock_ nor attach_lock_ taken; the JdwpState is
\* destroyed, and ~JdwpState skips run = false and the join but calls shutdown
\* and free, once each.  In every teardown the join has been made exactly
\* when a JDWP thread was created.
C20_StartupFailure ==
  /\ startupFailed =>
       /\ createResult = "null" /\ cpc \in DtorWithoutJoin
       /\ rpc = "r_none" /\ ~debug_thread_started_ /\ ~joined /\ ~run
       /\ thread_start_lock_ = Free /\ attach_lock_ = Free
       /\ thread_start_cond_ = {} /\ attach_cond_ = {}
       /\ cpc = "d_done" =>
            /\ shutdowns = 1 /\ frees = 1 /\ postVMDeaths = 0
            /\ DtorStepNames = <<"shutdown", "free", "netState = NULL", "ResetState">>
  /\ cpc \in PastJoin => (joined <=> rpc # "r_none")

C20_Witness ==
  /\ startupFailed /\ cpc = "d_done" /\ frees = 1 /\ shutdowns = 1
  /\ netState = NULL

====
